---- MODULE Spec2Model ----
(***************************************************************************)
(* Verification model of the realtime todo application.                    *)
(*                                                                         *)
(*   Spec       the Socket.io channel registry of backend/src/index.ts:    *)
(*              sessions, room membership and the relay of todo events.    *)
(*   SpecApi    the todo mutation routes (routes/todos.ts): create, update *)
(*              and delete, each an async handler whose awaits are the     *)
(*              points where another request may run.                      *)
(*   SpecCache  the client todo store (frontend/src/store/index.ts) as it  *)
(*              is driven by the socket listeners of utils/socket.ts and   *)
(*              by DashboardPage.loadTodos.                                *)
(*                                                                         *)
(*   SpecChannel    the event channel from the server to one client.       *)
(*   SpecSocket     the client socket service (utils/socket.ts) with login,*)
(*                  logout, reconnection and the requests of the dashboard.*)
(*   SpecRequests   the REST requests of the dashboard and their failures  *)
(*                  (utils/api.ts, CreateTodoModal, DashboardPage).        *)
(*   SpecRooms      the registry with the team room messages of a client.  *)
(*   SpecSub        the subtask and comment routes of routes/todos.ts.     *)
(*   SpecCategories the category routes (routes/categories.ts).            *)
(*   SpecSync       one client against the todo routes, with the fairness  *)
(*                  of what runs without a user's doing.                   *)
(*                                                                         *)
(* The specifications share one state and one initial state; each moves    *)
(* only the part of the state its component owns.                          *)
(***************************************************************************)
EXTENDS Integers, Sequences, FiniteSets, TLC

\* ---------------------------------------------------------------- bounds
MaxSessions == 2
MaxTodos == 2
MaxRequests == 3
MaxCache == 2
MaxEvents == 3
MaxSockets == 2
MaxTimers == 2
MaxSubtasks == 2
MaxComments == 1
MaxCategories == 2

\* ------------------------------------------------------------ value sets
Users == {"u1", "u2"}
Teams == {"g1"}
NoUser == "nobody"
Tokens == {"tok-u1", "tok-u2", "tok-bad"}
NoToken == "none"
Sessions == 1..MaxSessions
NoSession == 0
\* The client whose store is modelled sits behind the socket of session Self;
\* the other sessions are the sockets of other clients.
Self == 1
\* The sockets the client makes, in the order it makes them.
Sockets == 1..MaxSockets
NoSocket == 0
maxReconnectAttempts == 5

\* Collaborator interface to auth: credential token -> user id, or rejection.
AuthUser(token) ==
  CASE token = "tok-u1" -> "u1"
    [] token = "tok-u2" -> "u2"
    [] OTHER -> NoUser

\* Room names: `user-${userId}` and `team-${teamId}`.
UserRoom(u) == <<"user", u>>
TeamRoom(t) == <<"team", t>>
Rooms == {UserRoom(u) : u \in Users} \cup {TeamRoom(t) : t \in Teams}

\* Payloads of the todo events a client sends to the relay: the entity (with
\* its owner) for todo-created / todo-updated, the bare id for todo-deleted.
\* (A bare id is written as the one-field record [id |-> i].)
RelayIds == {1}
RelayEntities == [id : RelayIds, userId : Users]
EventNames == {"todo-created", "todo-updated", "todo-deleted"}
RelayData(event) == IF event = "todo-deleted" THEN [id : RelayIds] ELSE RelayEntities

\* Storage rows of the todo table and the bodies of the mutation requests.
\* Undefined is JavaScript's undefined: a field the request does not carry.
TodoIds == 1..MaxTodos
Requests == 1..MaxRequests
Undefined == "undefined"
Titles == {"a", "b"}
Priorities == {"MEDIUM", "HIGH"}
Statuses == {"TODO", "COMPLETED"}
\* new Date(dueDate): the instant an ISO 8601 date names; Null is JavaScript's
\* null, the due date of a todo that has none.
Null == "null"
ToDate(iso) == iso \o "T00:00:00.000Z"
TodoRows == [userId : Users, title : Titles, priority : Priorities, status : Statuses,
             dueDate : {Null, ToDate("2026-01-01")}]
NoTodo == [userId |-> NoUser]
\* The category table: one category of each user. "cX" names no category.
CategoryIds == {"c1", "c2"}
CategoryOwner(c) == IF c = "c1" THEN "u1" ELSE "u2"
UndefinedIds == {Undefined}
CreateBodies == [title : {"a", ""}, priority : {Undefined, "HIGH"}, dueDate : {Undefined},
                 categoryIds : {UndefinedIds, {"c1"}}]
UpdateFields == [title : {Undefined, "", "b"}, priority : {Undefined, "HIGH"},
                 status : {Undefined, "COMPLETED"}, dueDate : {Undefined, "2026-01-01"},
                 categoryIds : {UndefinedIds, {"c2"}, {"cX"}}]
Carried(body) ==
  {f \in {"title", "priority", "status", "dueDate"} : body[f] # Undefined}
    \cup {f \in {"categoryIds"} : body[f] # UndefinedIds}
\* Partial updates: the bodies that carry at most one of the fields.
UpdateBodies == {b \in UpdateFields : Cardinality(Carried(b)) <= 1}
NoBody == [title |-> Undefined]
\* The join rows of a todo after its row is deleted (onDelete: Cascade).
OnDeleteCascade == {}
\* The status of a new row is left to the storage schema's default.
DefaultStatus == "TODO"

\* The rows of the subtask and comment tables, each under its parent todo.
\* Storage generates the ids: no subtask has the id of a todo.
SubtaskIds == (MaxTodos + 1)..(MaxTodos + MaxSubtasks)
CommentIds == 1..MaxComments
NoSubtask == [todoId |-> 0]
NoComment == [todoId |-> 0]
\* The JSON bodies of a subtask update; "true" is the JSON literal true.
SubtaskBodies == [title : {Undefined, "", "t"}, completed : {Undefined, "true"}]
\* The create bodies with a title and nothing else.
PlainBodies ==
  {b \in CreateBodies : b.title # "" /\ b.priority = Undefined /\ b.categoryIds = UndefinedIds}
\* The rows of a table that are left when todo `id` is deleted: the rows under
\* it go with it (onDelete: Cascade).
Cascade(table, none, id) ==
  [j \in DOMAIN table |-> IF table[j].todoId = id THEN none ELSE table[j]]

\* The rows the category routes make, numbered in the order they are made.
CategoryNumbers == 1..MaxCategories
CategoryNames == {"work", "home"}
\* body('name').trim(): the name with the white space at its ends removed.
Trim(name) ==
  CASE name = " work" -> "work"
    [] name = " " -> ""
    [] OTHER -> name
\* The names a request may carry: a name, a name with a blank before it, a
\* blank, and (for an update) none.
RequestNames == {"work", " work", "home", " "}
NoCategory == [userId |-> NoUser]

\* Todo entities as the client receives them. The list route includes the
\* comments of each todo; the entity answered by the create and update routes
\* has no `comments` key. The comment list is abstracted to one value.
Comments == {"comments"}
ListedTodos == [id : TodoIds, title : Titles, comments : Comments]
PushedTodos == [id : TodoIds, title : Titles] \cup ListedTodos

VARIABLES
  conn,        \* conn[s]: "none" (id not yet issued), "connected", "disconnected"
  auth,        \* auth[s]: socket.handshake.auth.token of session s
  rooms,       \* rooms[s]: the rooms socket s has joined
  broadcast,   \* what the latest step emitted to clients and the sockets it
               \* went to; NoBroadcast when the step emitted nothing
  db,          \* db[i]: the row of todo i in storage, NoTodo when there is none
  todoCategories, \* todoCategories[i]: the category ids the join table
               \* relates todo i to
  nextId,      \* the next todo id storage generates
  req,         \* req[r]: the r-th HTTP request: where its handler stands and
               \* what it was called with
  response     \* the response the latest step sent: its HTTP status and the
               \* user and todo id of the request it answers (none for a
               \* request refused by validation, before its parameters are
               \* read); NoResponse when the step answered nothing
VARIABLES
  todos,       \* useTodoStore.todos of one client
  lastEvt,     \* the event the client applied last
  prevEvt      \* the event it applied before that one

VARIABLES
  inbox,       \* the events on their way to the client's socket, oldest first
  emitted,     \* how many events the server has emitted to the client so far
  applied      \* the number, in emission order, of the event the client
               \* applied last

VARIABLES
  sock,        \* sock[k]: the k-th socket SocketService.connect() has made:
               \* "none" (not made yet), "connecting", "connected", "joined"
               \* (connected, join-user-room sent on it), "closed"
  current,     \* SocketService.socket: the socket made last, NoSocket for null
  login,       \* useAuthStore: the user logged in at this client, with a token
  reconnectAttempts,  \* SocketService.reconnectAttempts
  timers,      \* the setTimeout callbacks of handleReconnect not yet run
  delay,       \* the delay handleReconnect gave its latest setTimeout
  lost,        \* a connected socket lost its transport and none has connected since
  isLoading    \* useTodoStore.isLoading: loadTodos is waiting for the list

VARIABLES
  subtasks,    \* subtasks[j]: the row of subtask j, NoSubtask when there is none
  nextSubtask, \* the next subtask id storage generates
  comments,    \* comments[j]: the row of comment j, NoComment when there is none
  categories   \* categories[c]: the row of the c-th category the category
               \* routes created, NoCategory when there is none

VARIABLES
  received,    \* the message a client sent that the server received last
  submit,      \* the createTodo request of CreateTodoModal.onSubmit: "idle",
               \* "pending" (sent), or "answered" with the HTTP status of the
               \* answer that is on its way to the client
  toast        \* the toast shown last: "none", "created" (toast.success of
               \* onSubmit), "create failed" (toast.error of onSubmit) or
               \* "load failed" (toast.error of loadTodos)

registry == <<conn, auth, rooms, received>>
transport == <<inbox, emitted, applied>>
service == <<sock, current, login, reconnectAttempts, timers, delay, lost>>
children == <<subtasks, nextSubtask, comments>>
storage == <<db, todoCategories, nextId, req, response, children, categories>>
requests == <<submit, toast>>
client == <<todos, lastEvt, prevEvt, requests>>
vars == <<conn, auth, rooms, broadcast, db, todoCategories, nextId, req, response,
          todos, lastEvt, prevEvt, inbox, emitted, applied,
          sock, current, login, reconnectAttempts, timers, delay, lost, isLoading,
          subtasks, nextSubtask, comments, categories, received, submit, toast>>

NoBroadcast == [event |-> "none", data |-> [id |-> 0], from |-> NoSession, to |-> {}]
NoEvt == [kind |-> "none", data |-> [id |-> 0]]
NoEmission == broadcast' = NoBroadcast
Idle == [pc |-> "idle", user |-> NoUser, id |-> 0, body |-> NoBody]
Done == [pc |-> "done", user |-> NoUser, id |-> 0, body |-> NoBody]
NoResponse == [status |-> 0, user |-> NoUser, id |-> 0]
NoSubmit == [state |-> "idle", status |-> 0]
NoMessage == [event |-> "none", from |-> NoSession]

Init ==
  /\ conn = [s \in Sessions |-> "none"]
  /\ auth = [s \in Sessions |-> NoToken]
  /\ rooms = [s \in Sessions |-> {}]
  /\ broadcast = NoBroadcast
  /\ db = [i \in TodoIds |-> NoTodo]
  /\ todoCategories = [i \in TodoIds |-> {}]
  /\ nextId = 1
  /\ req = [r \in Requests |-> Idle]
  /\ response = NoResponse
  /\ todos = << >>
  /\ lastEvt = NoEvt
  /\ prevEvt = NoEvt
  /\ inbox = << >>
  /\ emitted = 0
  /\ applied = 0
  /\ sock = [k \in Sockets |-> "none"]
  /\ current = NoSocket
  /\ login = NoUser
  /\ reconnectAttempts = 0
  /\ timers = 0
  /\ delay = 0
  /\ lost = FALSE
  /\ isLoading = FALSE
  /\ subtasks = [j \in SubtaskIds |-> NoSubtask]
  /\ nextSubtask = MaxTodos + 1
  /\ comments = [j \in CommentIds |-> NoComment]
  /\ categories = [c \in CategoryNumbers |-> NoCategory]
  /\ received = NoMessage
  /\ submit = NoSubmit
  /\ toast = "none"

Connected == {s \in Sessions : conn[s] = "connected"}

\* The sessions currently joined to a room.
Members(room) == {s \in Connected : room \in rooms[s]}

\* ------------------------------------------------- Realtime channel registry

\* io.on('connection'): the server has no handshake middleware, every socket
\* that connects is admitted whatever its auth token; it gets a fresh id.
Connection(token) ==
  /\ \E s \in Sessions :
       /\ conn[s] = "none"
       /\ \A r \in Sessions : r < s => conn[r] # "none"
       /\ conn' = [conn EXCEPT ![s] = "connected"]
       /\ auth' = [auth EXCEPT ![s] = token]
  /\ NoEmission
  /\ UNCHANGED <<rooms, received, storage, client, transport, service, isLoading>>

\* socket.on('join-user-room', userId): socket.join(`user-${userId}`).
JoinUserRoom(s, userId) ==
  /\ conn[s] = "connected"
  /\ rooms' = [rooms EXCEPT ![s] = @ \cup {UserRoom(userId)}]
  /\ NoEmission
  /\ UNCHANGED <<conn, auth, received, storage, client, transport, service, isLoading>>

\* socket.on('join-team-room', teamId): socket.join(`team-${teamId}`).
JoinTeamRoom(s, teamId) ==
  /\ conn[s] = "connected"
  /\ rooms' = [rooms EXCEPT ![s] = @ \cup {TeamRoom(teamId)}]
  /\ NoEmission
  /\ UNCHANGED <<conn, auth, received, storage, client, transport, service, isLoading>>

\* io.emit in place of socket.broadcast.emit: the sender gets its own echo.
BroadcastTargetsWithEcho(sender) == Connected

\* socket.broadcast.emit: every connected socket of the namespace except the
\* sender, whatever rooms they are in.
BroadcastTargets(sender) == Connected \ {sender}

\* socket.on('todo-created' | 'todo-updated' | 'todo-deleted', data):
\* socket.broadcast.emit(event, data).
RelayTodoEvent(s, event, data) ==
  /\ conn[s] = "connected"
  /\ broadcast' = [event |-> event, data |-> data,
                from |-> s, to |-> BroadcastTargets(s)]
  /\ UNCHANGED <<registry, storage, client, transport, service, isLoading>>

\* A registry that keeps the memberships of a closed socket.
LeaveNone(joined) == joined

\* The rooms a socket is left in when it closes: Socket.io's adapter removes
\* a closing socket from all of them before the 'disconnect' listeners run.
LeaveAll(joined) == {}

\* socket.on('disconnect'): transport closed by either side (the client's
\* SocketService.disconnect() or a network loss). The session is terminal and
\* the socket, with its handshake, is dropped; the packets on their way to it
\* are lost.
Disconnect(s) ==
  /\ conn[s] = "connected"
  /\ conn' = [conn EXCEPT ![s] = "disconnected"]
  /\ auth' = [auth EXCEPT ![s] = NoToken]
  /\ rooms' = [rooms EXCEPT ![s] = LeaveAll(@)]
  /\ inbox' = IF s = Self THEN << >> ELSE inbox
  /\ NoEmission
  /\ UNCHANGED <<received, storage, client, emitted, applied, service, isLoading>>

Next ==
  \/ \E token \in Tokens : Connection(token)
  \/ \E s \in Sessions, u \in Users : JoinUserRoom(s, u)
  \/ \E s \in Sessions, t \in Teams : JoinTeamRoom(s, t)
  \/ \E s \in Sessions, e \in EventNames : \E d \in RelayData(e) : RelayTodoEvent(s, e, d)
  \/ \E s \in Sessions : Disconnect(s)

Spec == Init /\ [][Next]_vars

\* leaveTeamRoom(teamId) of a client: socket.emit('leave-team-room', teamId).
\* The server registers no listener for the event: the message arrives and
\* nothing is done with it.
LeaveTeamRoom(s, teamId) ==
  /\ conn[s] = "connected"
  /\ received' = [event |-> "leave-team-room", from |-> s, arg |-> teamId]
  /\ NoEmission
  /\ UNCHANGED <<conn, auth, rooms, storage, client, transport, service, isLoading>>

\* The team rooms: sessions that join and leave them, and the relay.
NextRooms ==
  \/ \E token \in Tokens : Connection(token)
  \/ \E s \in Sessions, t \in Teams : JoinTeamRoom(s, t)
  \/ \E s \in Sessions, t \in Teams : LeaveTeamRoom(s, t)
  \/ \E s \in Sessions, e \in EventNames : \E d \in RelayData(e) : RelayTodoEvent(s, e, d)
  \/ \E s \in Sessions : Disconnect(s)

SpecRooms == Init /\ [][NextRooms]_vars

\* ------------------------------------------------------------ Mutation API
\* The handlers run after the `authenticate` middleware has set req.user; the
\* routes module never touches the Socket.io server. A handler runs up to its
\* next await in one step; the storage call it awaits is executed by the step
\* that resumes it.

Answer(r, status, user, id) ==
  /\ response' = [status |-> status, user |-> user, id |-> id]
  /\ req' = [req EXCEPT ![r] = Done]
NoAnswer == response' = NoResponse
InFlight(pc, user, id, body) == [pc |-> pc, user |-> user, id |-> id, body |-> body]

\* Request r arrives: requests are numbered in their order of arrival.
Arrives(r) == req[r] = Idle /\ \A q \in Requests : q < r => req[q] # Idle

\* findFirst({ where: { id } }): a lookup that leaves the owner out.
FindAny(id, user) == db[id]

\* findFirst({ where: { id, userId } }).
FindOwned(id, user) == IF db[id] # NoTodo /\ db[id].userId = user THEN db[id] ELSE NoTodo

\* An update that writes every field of the body, carried or not.
ApplyPut(row, body) ==
  [userId |-> row.userId, title |-> body.title, priority |-> body.priority,
   status |-> body.status, dueDate |-> body.dueDate]

\* updateData: only the fields the body defines are written.
ApplyUpdate(row, body) ==
  [userId |-> row.userId,
   title |-> IF body.title # Undefined THEN body.title ELSE row.title,
   priority |-> IF body.priority # Undefined THEN body.priority ELSE row.priority,
   status |-> IF body.status # Undefined THEN body.status ELSE row.status,
   dueDate |-> IF body.dueDate # Undefined THEN ToDate(body.dueDate) ELSE row.dueDate]

\* The nested `categories: { create: [...] }` of a create or update: present
\* when categoryIds is a non-empty array.
NestedCreate(body) == body.categoryIds # UndefinedIds /\ body.categoryIds # {}

\* The nested create violates the foreign key of the join table when an id
\* names no category; the whole storage call then throws and writes nothing.
ForeignKeyFails(body) == NestedCreate(body) /\ ~ (body.categoryIds \subseteq CategoryIds)

\* A row that takes the priority as the body has it.
TodoDataAsGiven(user, body) ==
  [userId |-> user, title |-> body.title, priority |-> body.priority,
   status |-> DefaultStatus, dueDate |-> Null]

\* todoData: the row prisma.todo.create is called with.
TodoData(user, body) ==
  [userId |-> user, title |-> body.title,
   priority |-> IF body.priority # Undefined THEN body.priority ELSE "MEDIUM",
   status |-> DefaultStatus,
   dueDate |-> IF body.dueDate # Undefined THEN ToDate(body.dueDate) ELSE Null]

\* router.post('/') up to its await: validation and the call of create.
PostTodo(r, user, body) ==
  /\ Arrives(r)
  /\ IF body.title = ""
       THEN Answer(r, 400, NoUser, 0)
       ELSE NoAnswer /\ req' = [req EXCEPT ![r] = InFlight("create", user, 0, body)]
  /\ NoEmission
  /\ UNCHANGED <<db, nextId, todoCategories, children, categories,
                 registry, client, transport, service, isLoading>>

\* router.post('/'): prisma.todo.create with the nested category relations;
\* the catch answers 500.
PostTodoCreate(r) ==
  /\ req[r].pc = "create"
  /\ LET user == req[r].user
         body == req[r].body
     IN  IF ForeignKeyFails(body)
           THEN /\ Answer(r, 500, user, 0)
                /\ UNCHANGED <<db, nextId, todoCategories>>
           ELSE /\ nextId <= MaxTodos
                /\ db' = [db EXCEPT ![nextId] = TodoData(user, body)]
                /\ todoCategories' = [todoCategories EXCEPT ![nextId] =
                                        IF NestedCreate(body) THEN body.categoryIds ELSE {}]
                /\ nextId' = nextId + 1
                /\ Answer(r, 201, user, nextId)
  /\ NoEmission
  /\ UNCHANGED <<children, categories,
                 registry, client, transport, service, isLoading>>

\* router.put('/:id') up to the await after the ownership check: validation,
\* findFirst, and the call of deleteMany (when the body carries categoryIds)
\* or of update.
PutTodoFind(r, user, id, body) ==
  /\ Arrives(r)
  /\ IF body.title = ""
       THEN Answer(r, 400, NoUser, 0)
       ELSE IF FindOwned(id, user) = NoTodo
       THEN Answer(r, 404, user, id)
       ELSE /\ NoAnswer
            /\ req' = [req EXCEPT ![r] =
                 InFlight(IF body.categoryIds # UndefinedIds THEN "deleteMany" ELSE "update",
                          user, id, body)]
  /\ NoEmission
  /\ UNCHANGED <<db, nextId, todoCategories, children, categories,
                 registry, client, transport, service, isLoading>>

\* router.put('/:id'): prisma.todoCategory.deleteMany({ where: { todoId } }),
\* then the call of update.
PutTodoDeleteMany(r) ==
  /\ req[r].pc = "deleteMany"
  /\ todoCategories' = [todoCategories EXCEPT ![req[r].id] = {}]
  /\ req' = [req EXCEPT ![r].pc = "update"]
  /\ NoAnswer
  /\ NoEmission
  /\ UNCHANGED <<db, nextId, children, categories,
                 registry, client, transport, service, isLoading>>

\* router.put('/:id'): prisma.todo.update({ where: { id } }) with the nested
\* create, which throws when the row is gone or a category id names no
\* category; the catch answers 500.
PutTodoUpdate(r) ==
  /\ req[r].pc = "update"
  /\ LET id == req[r].id
         body == req[r].body
     IN  IF db[id] = NoTodo \/ ForeignKeyFails(body)
           THEN /\ Answer(r, 500, req[r].user, id)
                /\ UNCHANGED <<db, todoCategories>>
           ELSE /\ db' = [db EXCEPT ![id] = ApplyUpdate(@, body)]
                /\ todoCategories' = [todoCategories EXCEPT ![id] =
                                        IF NestedCreate(body) THEN @ \cup body.categoryIds ELSE @]
                /\ Answer(r, 200, req[r].user, id)
  /\ NoEmission
  /\ UNCHANGED <<nextId, children, categories,
                 registry, client, transport, service, isLoading>>

\* router.delete('/:id') up to its await after the ownership check.
DeleteTodoFind(r, user, id) ==
  /\ Arrives(r)
  /\ IF FindOwned(id, user) = NoTodo
       THEN Answer(r, 404, user, id)
       ELSE NoAnswer /\ req' = [req EXCEPT ![r] = InFlight("delete", user, id, NoBody)]
  /\ NoEmission
  /\ UNCHANGED <<db, nextId, todoCategories, children, categories,
                 registry, client, transport, service, isLoading>>

\* router.delete('/:id'): prisma.todo.delete({ where: { id } }), which throws
\* when the row is gone; the relations of the row go with it.
DeleteTodoDelete(r) ==
  /\ req[r].pc = "delete"
  /\ LET id == req[r].id
     IN  IF db[id] = NoTodo
           THEN /\ Answer(r, 500, req[r].user, id)
                /\ UNCHANGED <<db, todoCategories, subtasks, comments>>
           ELSE /\ db' = [db EXCEPT ![id] = NoTodo]
                /\ todoCategories' = [todoCategories EXCEPT ![id] = OnDeleteCascade]
                /\ subtasks' = Cascade(subtasks, NoSubtask, id)
                /\ comments' = Cascade(comments, NoComment, id)
                /\ Answer(r, 200, req[r].user, id)
  /\ NoEmission
  /\ UNCHANGED <<nextId, nextSubtask, categories,
                 registry, client, transport, service, isLoading>>

NextApi ==
  \/ \E r \in Requests, u \in Users, b \in CreateBodies : PostTodo(r, u, b)
  \/ \E r \in Requests : PostTodoCreate(r)
  \/ \E r \in Requests, u \in Users, i \in TodoIds, b \in UpdateBodies : PutTodoFind(r, u, i, b)
  \/ \E r \in Requests : PutTodoDeleteMany(r)
  \/ \E r \in Requests : PutTodoUpdate(r)
  \/ \E r \in Requests, u \in Users, i \in TodoIds : DeleteTodoFind(r, u, i)
  \/ \E r \in Requests : DeleteTodoDelete(r)

SpecApi == Init /\ [][NextApi]_vars

\* ------------------------------------------- Subtask and comment routes
\* The remaining routes of routes/todos.ts.

\* subtask.findFirst({ where: { id } }): a lookup that leaves the owner out.
FindAnySubtask(j, user) == subtasks[j]

\* subtask.findFirst({ where: { id, todo: { userId } } }).
FindOwnedSubtask(j, user) ==
  IF subtasks[j] # NoSubtask /\ db[subtasks[j].todoId].userId = user
    THEN subtasks[j] ELSE NoSubtask

\* router.post('/:id/subtasks') up to the await after the ownership check.
PostSubtaskFind(r, user, id, title) ==
  /\ Arrives(r)
  /\ IF title = ""
       THEN Answer(r, 400, NoUser, 0)
       ELSE IF FindOwned(id, user) = NoTodo
       THEN Answer(r, 404, user, id)
       ELSE /\ NoAnswer
            /\ req' = [req EXCEPT ![r] = InFlight("createSubtask", user, id, [title |-> title])]
  /\ NoEmission
  /\ UNCHANGED <<db, nextId, todoCategories, children, categories,
                 registry, client, transport, service, isLoading>>

\* router.post('/:id/subtasks'): prisma.subtask.create, which throws when the
\* todo is gone; a new subtask is not completed.
PostSubtaskCreate(r) ==
  /\ req[r].pc = "createSubtask"
  /\ IF db[req[r].id] = NoTodo
       THEN /\ Answer(r, 500, req[r].user, req[r].id)
            /\ UNCHANGED <<subtasks, nextSubtask>>
       ELSE /\ nextSubtask \in SubtaskIds
            /\ subtasks' = [subtasks EXCEPT ![nextSubtask] =
                 [todoId |-> req[r].id, title |-> req[r].body.title, completed |-> FALSE]]
            /\ nextSubtask' = nextSubtask + 1
            /\ Answer(r, 201, req[r].user, req[r].id)
  /\ NoEmission
  /\ UNCHANGED <<db, nextId, todoCategories, comments, categories,
                 registry, client, transport, service, isLoading>>

\* router.put('/subtasks/:subtaskId') up to the await after the ownership
\* check.
PutSubtaskFind(r, user, j, body) ==
  /\ Arrives(r)
  /\ IF body.title = ""
       THEN Answer(r, 400, NoUser, 0)
       ELSE IF FindOwnedSubtask(j, user) = NoSubtask
       THEN Answer(r, 404, user, j)
       ELSE /\ NoAnswer
            /\ req' = [req EXCEPT ![r] = InFlight("updateSubtask", user, j, body)]
  /\ NoEmission
  /\ UNCHANGED <<db, nextId, todoCategories, children, categories,
                 registry, client, transport, service, isLoading>>

\* router.put('/subtasks/:subtaskId'): prisma.subtask.update({ where: { id } })
\* with the fields the body defines; it throws when the row is gone.
PutSubtaskUpdate(r) ==
  /\ req[r].pc = "updateSubtask"
  /\ LET j == req[r].id
         body == req[r].body
     IN  IF subtasks[j] = NoSubtask
           THEN /\ Answer(r, 500, req[r].user, j)
                /\ UNCHANGED subtasks
           ELSE /\ subtasks' = [subtasks EXCEPT ![j] =
                     [todoId |-> @.todoId,
                      title |-> IF body.title # Undefined THEN body.title ELSE @.title,
                      completed |-> IF body.completed # Undefined
                                      THEN body.completed = "true" ELSE @.completed]]
                /\ Answer(r, 200, req[r].user, j)
  /\ NoEmission
  /\ UNCHANGED <<db, nextId, todoCategories, nextSubtask, comments, categories,
                 registry, client, transport, service, isLoading>>

\* router.delete('/subtasks/:subtaskId') up to the await after the ownership
\* check.
DeleteSubtaskFind(r, user, j) ==
  /\ Arrives(r)
  /\ IF FindOwnedSubtask(j, user) = NoSubtask
       THEN Answer(r, 404, user, j)
       ELSE NoAnswer /\ req' = [req EXCEPT ![r] = InFlight("deleteSubtask", user, j, NoBody)]
  /\ NoEmission
  /\ UNCHANGED <<db, nextId, todoCategories, children, categories,
                 registry, client, transport, service, isLoading>>

\* router.delete('/subtasks/:subtaskId'): prisma.subtask.delete, which throws
\* when the row is gone.
DeleteSubtaskDelete(r) ==
  /\ req[r].pc = "deleteSubtask"
  /\ LET j == req[r].id
     IN  IF subtasks[j] = NoSubtask
           THEN /\ Answer(r, 500, req[r].user, j)
                /\ UNCHANGED subtasks
           ELSE /\ subtasks' = [subtasks EXCEPT ![j] = NoSubtask]
                /\ Answer(r, 200, req[r].user, j)
  /\ NoEmission
  /\ UNCHANGED <<db, nextId, todoCategories, nextSubtask, comments, categories,
                 registry, client, transport, service, isLoading>>

\* router.post('/:id/comments') up to the await after the ownership check.
PostCommentFind(r, user, id, content) ==
  /\ Arrives(r)
  /\ IF content = ""
       THEN Answer(r, 400, NoUser, 0)
       ELSE IF FindOwned(id, user) = NoTodo
       THEN Answer(r, 404, user, id)
       ELSE /\ NoAnswer
            /\ req' = [req EXCEPT ![r] = InFlight("createComment", user, id, [content |-> content])]
  /\ NoEmission
  /\ UNCHANGED <<db, nextId, todoCategories, children, categories,
                 registry, client, transport, service, isLoading>>

\* router.post('/:id/comments'): prisma.comment.create, which throws when the
\* todo is gone.
PostCommentCreate(r) ==
  /\ req[r].pc = "createComment"
  /\ IF db[req[r].id] = NoTodo
       THEN /\ Answer(r, 500, req[r].user, req[r].id)
            /\ UNCHANGED comments
       ELSE /\ \E j \in CommentIds :
                 /\ comments[j] = NoComment
                 /\ \A k \in CommentIds : k < j => comments[k] # NoComment
                 /\ comments' = [comments EXCEPT ![j] =
                      [todoId |-> req[r].id, userId |-> req[r].user]]
            /\ Answer(r, 201, req[r].user, req[r].id)
  /\ NoEmission
  /\ UNCHANGED <<db, nextId, todoCategories, subtasks, nextSubtask, categories,
                 registry, client, transport, service, isLoading>>

NextSub ==
  \/ \E r \in Requests, u \in Users, b \in PlainBodies : PostTodo(r, u, b)
  \/ \E r \in Requests : PostTodoCreate(r)
  \/ \E r \in Requests, u \in Users, i \in TodoIds : DeleteTodoFind(r, u, i)
  \/ \E r \in Requests : DeleteTodoDelete(r)
  \/ \E r \in Requests, u \in Users, i \in TodoIds, t \in {"", "s"} : PostSubtaskFind(r, u, i, t)
  \/ \E r \in Requests : PostSubtaskCreate(r)
  \/ \E r \in Requests, u \in Users, j \in SubtaskIds, b \in SubtaskBodies :
       PutSubtaskFind(r, u, j, b)
  \/ \E r \in Requests : PutSubtaskUpdate(r)
  \/ \E r \in Requests, u \in Users, j \in SubtaskIds : DeleteSubtaskFind(r, u, j)
  \/ \E r \in Requests : DeleteSubtaskDelete(r)
  \/ \E r \in Requests, u \in Users, i \in TodoIds, c \in {"", "c"} : PostCommentFind(r, u, i, c)
  \/ \E r \in Requests : PostCommentCreate(r)

SpecSub == Init /\ [][NextSub]_vars

\* -------------------------------------------------------- Category routes
\* routes/categories.ts, after the `authenticate` middleware.

\* The categories of a user that have the name, the category `except` aside.
Named(user, name, except) ==
  {c \in CategoryNumbers \ {except} :
     categories[c] # NoCategory /\ categories[c].userId = user /\ categories[c].name = name}

\* The outcomes of a storage call that writes `name` for `user` into row c.
\* The storage schema is not among the sources: where it declares the pair
\* (userId, name) unique the call throws on a second row with the pair and
\* the catch answers 500; where it does not the row is written.
WriteCategory(r, c, user, name, status) ==
  \/ /\ categories' = [categories EXCEPT ![c] = [userId |-> user, name |-> name]]
     /\ Answer(r, status, user, c)
  \/ /\ Named(user, name, c) # {}
     /\ UNCHANGED categories
     /\ Answer(r, 500, user, c)

\* router.post('/') up to the await after the name check: validation,
\* findFirst({ where: { userId, name } }), and the call of create.
PostCategory(r, user, name) ==
  /\ Arrives(r)
  /\ IF Trim(name) = ""
       THEN Answer(r, 400, NoUser, 0)
       ELSE IF Named(user, Trim(name), 0) # {}
       THEN Answer(r, 400, user, 0)
       ELSE /\ NoAnswer
            /\ req' = [req EXCEPT ![r] =
                 InFlight("createCategory", user, 0, [name |-> Trim(name)])]
  /\ NoEmission
  /\ UNCHANGED <<db, nextId, todoCategories, children, categories,
                 registry, client, transport, service, isLoading>>

\* router.post('/'): prisma.category.create.
PostCategoryCreate(r) ==
  /\ req[r].pc = "createCategory"
  /\ \E c \in CategoryNumbers :
       /\ categories[c] = NoCategory
       /\ \A d \in CategoryNumbers : d < c => categories[d] # NoCategory
       /\ WriteCategory(r, c, req[r].user, req[r].body.name, 201)
  /\ NoEmission
  /\ UNCHANGED <<db, nextId, todoCategories, children,
                 registry, client, transport, service, isLoading>>

\* router.put('/:id') up to the await after the ownership check: validation,
\* findFirst({ where: { id, userId } }), and the call of the name check (for
\* a name that differs from the category's) or of update.
PutCategoryFind(r, user, c, name) ==
  /\ Arrives(r)
  /\ IF name # Undefined /\ Trim(name) = ""
       THEN Answer(r, 400, NoUser, 0)
       ELSE IF categories[c] = NoCategory \/ categories[c].userId # user
       THEN Answer(r, 404, user, c)
       ELSE /\ NoAnswer
            /\ req' = [req EXCEPT ![r] =
                 InFlight(IF name # Undefined /\ Trim(name) # categories[c].name
                            THEN "nameConflict" ELSE "updateCategory",
                          user, c, [name |-> Trim(name)])]
  /\ NoEmission
  /\ UNCHANGED <<db, nextId, todoCategories, children, categories,
                 registry, client, transport, service, isLoading>>

\* router.put('/:id'): findFirst({ where: { userId, name, id: { not: id } } }),
\* then the call of update.
PutCategoryConflict(r) ==
  /\ req[r].pc = "nameConflict"
  /\ IF Named(req[r].user, req[r].body.name, req[r].id) # {}
       THEN Answer(r, 400, req[r].user, req[r].id)
       ELSE NoAnswer /\ req' = [req EXCEPT ![r].pc = "updateCategory"]
  /\ NoEmission
  /\ UNCHANGED <<db, nextId, todoCategories, children, categories,
                 registry, client, transport, service, isLoading>>

\* router.put('/:id'): prisma.category.update({ where: { id } }) with the
\* name when the body carries one.
PutCategoryUpdate(r) ==
  /\ req[r].pc = "updateCategory"
  /\ LET c == req[r].id
         name == IF req[r].body.name # Undefined THEN req[r].body.name
                                                ELSE categories[c].name
     IN  WriteCategory(r, c, req[r].user, name, 200)
  /\ NoEmission
  /\ UNCHANGED <<db, nextId, todoCategories, children,
                 registry, client, transport, service, isLoading>>

NextCategories ==
  \/ \E r \in Requests, u \in Users, n \in RequestNames : PostCategory(r, u, n)
  \/ \E r \in Requests : PostCategoryCreate(r)
  \/ \E r \in Requests, u \in Users, c \in CategoryNumbers,
         n \in RequestNames \cup {Undefined} : PutCategoryFind(r, u, c, n)
  \/ \E r \in Requests : PutCategoryConflict(r)
  \/ \E r \in Requests : PutCategoryUpdate(r)

SpecCategories == Init /\ [][NextCategories]_vars

\* ------------------------------------------------------ Client todo store

\* A store that replaces the entry by the update.
MergeReplace(todo, updates) == updates

\* { ...todo, ...updates }
Merge(todo, updates) ==
  [f \in DOMAIN todo \cup DOMAIN updates |->
     IF f \in DOMAIN updates THEN updates[f] ELSE todo[f]]

\* setTodos: set({ todos }).
SetTodos(list, newTodos) == newTodos

\* addTodo: todos: [todo, ...state.todos].
AddTodo(list, todo) == <<todo>> \o list

\* An update that leaves out the test of the id.
UpdateTodoAll(list, id, updates) ==
  [i \in DOMAIN list |-> Merge(list[i], updates)]

\* updateTodo: state.todos.map(todo => todo.id === id ? {...todo, ...updates} : todo).
UpdateTodo(list, id, updates) ==
  [i \in DOMAIN list |-> IF list[i].id = id THEN Merge(list[i], updates) ELSE list[i]]

\* todos.splice(todos.findIndex(todo => todo.id === id), 1): an index of -1,
\* for an id that is not there, removes the last entry.
RemoveTodoSplice(list, id) ==
  IF \E i \in DOMAIN list : list[i].id = id
    THEN SelectSeq(list, LAMBDA t : t.id # id)
    ELSE SubSeq(list, 1, Len(list) - 1)

\* removeTodo: state.todos.filter(todo => todo.id !== id).
RemoveTodo(list, id) == SelectSeq(list, LAMBDA t : t.id # id)

Applied(kind, data) ==
  /\ lastEvt' = [kind |-> kind, data |-> data]
  /\ prevEvt' = lastEvt

\* socket.on('todo-created', todo): addTodo(todo).
OnTodoCreated(todo) ==
  /\ Len(todos) < MaxCache
  /\ todos' = AddTodo(todos, todo)
  /\ Applied("todo-created", todo)
  /\ NoEmission
  /\ UNCHANGED <<registry, storage, requests, transport, service, isLoading>>

\* socket.on('todo-updated', todo): updateTodo(todo.id, todo).
OnTodoUpdated(todo) ==
  /\ todos' = UpdateTodo(todos, todo.id, todo)
  /\ Applied("todo-updated", todo)
  /\ NoEmission
  /\ UNCHANGED <<registry, storage, requests, transport, service, isLoading>>

\* socket.on('todo-deleted', todoId): removeTodo(todoId).
OnTodoDeleted(todoId) ==
  /\ todos' = RemoveTodo(todos, todoId)
  /\ Applied("todo-deleted", [id |-> todoId])
  /\ NoEmission
  /\ UNCHANGED <<registry, storage, requests, transport, service, isLoading>>

\* The lists GET /api/todos answers: distinct todos, newest (highest id) first.
ServerLists ==
  {l \in UNION {[1..n -> ListedTodos] : n \in 0..MaxCache} :
     \A i, j \in DOMAIN l : i < j => l[i].id > l[j].id}

\* DashboardPage.loadTodos, at the resolution of getTodos:
\* setTodos(response.todos), and finally setLoading(false).
LoadTodos(list) ==
  /\ todos' = SetTodos(todos, list)
  /\ Applied("loaded", [id |-> 0])
  /\ isLoading' = FALSE
  /\ NoEmission
  /\ UNCHANGED <<registry, storage, requests, transport, service>>

NextCache ==
  \/ \E t \in PushedTodos : OnTodoCreated(t)
  \/ \E t \in PushedTodos : OnTodoUpdated(t)
  \/ \E i \in TodoIds : OnTodoDeleted(i)
  \/ \E l \in ServerLists : LoadTodos(l)

SpecCache == Init /\ [][NextCache]_vars

\* ------------------------------------------ Event channel to one client
\* A transport that hands over the newest message first.
NewestFirst(queue) == Len(queue)

\* The place in the queue of the message the transport hands over next: one
\* Socket.io connection (websocket or polling) keeps the order of its packets.
NextInLine(queue) == 1

Without(queue, i) == SubSeq(queue, 1, i - 1) \o SubSeq(queue, i + 1, Len(queue))

\* The relay handler with the packets it writes: socket.broadcast.emit puts
\* the event on the connection of every target as the handler runs.
Emit(s, event, data) ==
  /\ conn[s] = "connected"
  /\ emitted < MaxEvents
  /\ broadcast' = [event |-> event, data |-> data,
                   from |-> s, to |-> BroadcastTargets(s)]
  /\ IF Self \in BroadcastTargets(s)
       THEN /\ emitted' = emitted + 1
            /\ inbox' = Append(inbox, [n |-> emitted + 1, event |-> event, data |-> data])
       ELSE UNCHANGED <<emitted, inbox>>
  /\ UNCHANGED <<registry, storage, client, applied, service, isLoading>>

\* The store call of the listener of an event (setupEventListeners).
Listener(event, data) ==
  CASE event = "todo-created" -> AddTodo(todos, data)
    [] event = "todo-updated" -> UpdateTodo(todos, data.id, data)
    [] event = "todo-deleted" -> RemoveTodo(todos, data.id)

\* A packet arrives at the client's socket and its listener runs to the end.
Receive ==
  /\ conn[Self] = "connected"
  /\ inbox # << >>
  /\ LET i == NextInLine(inbox)
         m == inbox[i]
     IN  /\ todos' = Listener(m.event, m.data)
         /\ Applied(m.event, m.data)
         /\ applied' = m.n
         /\ inbox' = Without(inbox, i)
  /\ NoEmission
  /\ UNCHANGED <<registry, storage, requests, emitted, service, isLoading>>

NextChannel ==
  \/ \E token \in Tokens : Connection(token)
  \/ \E s \in Sessions, e \in EventNames : \E d \in RelayData(e) : Emit(s, e, d)
  \/ Receive
  \/ \E s \in Sessions : Disconnect(s)

SpecChannel == Init /\ [][NextChannel]_vars

\* ------------------------------------------- Client socket service
\* SocketService of utils/socket.ts with the App effect that connects it on
\* login and disconnects it on logout. io() is called without reconnection
\* options, so a socket that fails or loses its transport keeps trying on its
\* own and reports each failure with connect_error.

Min(a, b) == IF a < b THEN a ELSE b

\* The delay handleReconnect computes, after it has incremented the counter:
\* Math.min(1000 * Math.pow(2, this.reconnectAttempts), 30000).
ReconnectDelay(attempts) == Min(1000 * 2 ^ attempts, 30000)

\* A guard that lets the counter pass the maximum.
BudgetLeftInclusive(attempts) == attempts <= maxReconnectAttempts

\* this.reconnectAttempts < this.maxReconnectAttempts
BudgetLeft(attempts) == attempts < maxReconnectAttempts

IsConnected(state) == state \in {"connected", "joined"}

\* SocketService.connect() of a client whose auth store holds `user`: nothing
\* when this.socket is connected or there is no token, else this.socket is a
\* new socket.
Connect(user) ==
  IF (current # NoSocket /\ IsConnected(sock[current])) \/ user = NoUser
    THEN UNCHANGED <<sock, current>>
    ELSE \E k \in Sockets :
           /\ sock[k] = "none"
           /\ \A j \in Sockets : j < k => sock[j] # "none"
           /\ sock' = [sock EXCEPT ![k] = "connecting"]
           /\ current' = k

\* Login, and the App effect it triggers: socketService.connect().
Login(user) ==
  /\ login = NoUser
  /\ login' = user
  /\ Connect(user)
  /\ NoEmission
  /\ UNCHANGED <<reconnectAttempts, timers, delay, lost, isLoading,
                 registry, storage, client, transport>>

\* Logout (also forced by a 401 answer), and the App effect it triggers:
\* socketService.disconnect() closes this.socket and sets it to null.
Logout ==
  /\ login # NoUser
  /\ login' = NoUser
  /\ sock' = [k \in Sockets |-> IF k = current THEN "closed" ELSE sock[k]]
  /\ current' = NoSocket
  /\ NoEmission
  /\ UNCHANGED <<reconnectAttempts, timers, delay, lost, isLoading,
                 registry, storage, client, transport>>

\* socket.on('connect') of socket k: the counter is reset and, when a user is
\* logged in, joinUserRoom(user.id), which sends join-user-room on
\* this.socket if that one is connected.
OnConnect(k) ==
  /\ sock[k] = "connecting"
  /\ reconnectAttempts' = 0
  /\ lost' = FALSE
  /\ LET connected == [sock EXCEPT ![k] = "connected"]
     IN  sock' = IF login # NoUser /\ current # NoSocket /\ IsConnected(connected[current])
                   THEN [connected EXCEPT ![current] = "joined"]
                   ELSE connected
  /\ NoEmission
  /\ UNCHANGED <<current, login, timers, delay, isLoading,
                 registry, storage, client, transport>>

\* handleReconnect().
HandleReconnect ==
  IF BudgetLeft(reconnectAttempts)
    THEN /\ timers < MaxTimers
         /\ reconnectAttempts' = reconnectAttempts + 1
         /\ delay' = ReconnectDelay(reconnectAttempts')
         /\ timers' = timers + 1
    ELSE UNCHANGED <<reconnectAttempts, delay, timers>>

\* socket.on('connect_error') of socket k: handleReconnect().
OnConnectError(k) ==
  /\ sock[k] = "connecting"
  /\ HandleReconnect
  /\ NoEmission
  /\ UNCHANGED <<sock, current, login, lost, isLoading,
                 registry, storage, client, transport>>

\* socket.on('disconnect') of socket k, for a transport that was lost: the
\* handler only logs; the socket goes back to connecting.
OnDisconnect(k) ==
  /\ IsConnected(sock[k])
  /\ sock' = [sock EXCEPT ![k] = "connecting"]
  /\ lost' = TRUE
  /\ NoEmission
  /\ UNCHANGED <<current, login, reconnectAttempts, timers, delay, isLoading,
                 registry, storage, client, transport>>

\* A setTimeout callback of handleReconnect runs: this.connect().
TimerFires ==
  /\ timers > 0
  /\ timers' = timers - 1
  /\ Connect(login)
  /\ NoEmission
  /\ UNCHANGED <<login, reconnectAttempts, delay, lost, isLoading,
                 registry, storage, client, transport>>

\* DashboardPage mounts: loadTodos() sets the loading flag and calls getTodos.
LoadTodosStart ==
  /\ login # NoUser
  /\ isLoading' = TRUE
  /\ NoEmission
  /\ UNCHANGED <<registry, storage, client, transport, service>>

\* ------------------------------------------------- Client API requests
\* The statuses POST /api/todos answers with: created, validation failed,
\* not authenticated, unexpected error.
CreateStatuses == {201, 400, 401, 500}
\* The statuses GET /api/todos fails with.
ListErrorStatuses == {401, 500}

\* An interceptor that lets a 401 pass.
IsUnauthorizedNever(status) == FALSE

\* error.response?.status === 401
IsUnauthorized(status) == status = 401

\* The response interceptor on an error answer, before it rejects the error to
\* the caller: on a 401, logout() of the auth store, with the App effect that
\* follows it (socketService.disconnect(): this.socket is closed and set to
\* null), and the redirect to /login.
ResponseError(status) ==
  IF IsUnauthorized(status)
    THEN /\ login' = NoUser
         /\ sock' = [k \in Sockets |-> IF k = current THEN "closed" ELSE sock[k]]
         /\ current' = NoSocket
    ELSE UNCHANGED <<login, sock, current>>

\* A client for which every answer resolves the promise.
ResolvesAlways(status) == TRUE

\* await api.post(...): the promise resolves on a 2xx answer and is rejected
\* on any other.
Resolves(status) == status \in {200, 201}

\* CreateTodoModal.onSubmit up to its await: todoApi.createTodo(data).
OnSubmit ==
  /\ login # NoUser
  /\ submit = NoSubmit
  /\ submit' = [state |-> "pending", status |-> 0]
  /\ NoEmission
  /\ UNCHANGED <<registry, storage, todos, lastEvt, prevEvt, toast, transport, service, isLoading>>

\* The server answers the createTodo request.
CreateTodoAnswered(status) ==
  /\ submit.state = "pending"
  /\ submit' = [state |-> "answered", status |-> status]
  /\ NoEmission
  /\ UNCHANGED <<registry, storage, todos, lastEvt, prevEvt, toast, transport, service, isLoading>>

\* The answer reaches the client and onSubmit resumes: on success
\* toast.success and onSuccess(), which calls loadTodos() (setLoading(true),
\* getTodos); on an error the interceptor, then the catch: toast.error.
OnSubmitSettles ==
  /\ submit.state = "answered"
  /\ submit' = NoSubmit
  /\ IF Resolves(submit.status)
       THEN /\ toast' = "created"
            /\ isLoading' = TRUE
            /\ UNCHANGED <<login, sock, current>>
       ELSE /\ ResponseError(submit.status)
            /\ toast' = "create failed"
            /\ UNCHANGED isLoading
  /\ NoEmission
  /\ UNCHANGED <<registry, storage, todos, lastEvt, prevEvt, transport,
                 reconnectAttempts, timers, delay, lost>>

\* DashboardPage.loadTodos when getTodos fails: the interceptor, then the
\* catch (toast.error) and finally setLoading(false).
LoadTodosFails(status) ==
  /\ isLoading
  /\ ResponseError(status)
  /\ toast' = "load failed"
  /\ isLoading' = FALSE
  /\ NoEmission
  /\ UNCHANGED <<registry, storage, todos, lastEvt, prevEvt, submit, transport,
                 reconnectAttempts, timers, delay, lost>>

\* The requests of the dashboard of a client that is logged in.
NextRequests ==
  \/ \E u \in Users : Login(u)
  \/ LoadTodosStart
  \/ \E l \in ServerLists : LoadTodos(l)
  \/ \E status \in ListErrorStatuses : LoadTodosFails(status)
  \/ OnSubmit
  \/ \E status \in CreateStatuses : CreateTodoAnswered(status)
  \/ OnSubmitSettles

SpecRequests == Init /\ [][NextRequests]_vars

NextSocket ==
  \/ OnSubmit
  \/ \E status \in CreateStatuses : CreateTodoAnswered(status)
  \/ OnSubmitSettles
  \/ \E u \in Users : Login(u)
  \/ Logout
  \/ \E k \in Sockets : OnConnect(k)
  \/ \E k \in Sockets : OnConnectError(k)
  \/ \E k \in Sockets : OnDisconnect(k)
  \/ TimerFires
  \/ LoadTodosStart
  \/ LoadTodos(<< >>)

SpecSocket == Init /\ [][NextSocket]_vars

\* ------------------------------------------- The cache against the storage
\* One client with its socket and its dashboard, and the todo routes serving
\* the requests of the users' other sessions (another tab, device or program).

RECURSIVE ListFrom(_, _)
\* The rows of the user among todos n, n-1, .. 1, as the list route sends them.
ListFrom(user, n) ==
  IF n = 0 THEN << >>
  ELSE (IF db[n] # NoTodo /\ db[n].userId = user
          THEN <<[id |-> n, title |-> db[n].title, comments |-> "comments"]>>
          ELSE << >>) \o ListFrom(user, n - 1)

\* router.get('/'): prisma.todo.findMany({ where: { userId },
\* orderBy: { createdAt: 'desc' } }), newest first.
GetTodos(user) == ListFrom(user, MaxTodos)

\* DashboardPage.loadTodos resolves with the list the server holds for the
\* user (read and applied in one step).
GetTodosResolves ==
  /\ isLoading
  /\ login # NoUser
  /\ LoadTodos(GetTodos(login))

NextSync ==
  \/ \E u \in Users : Login(u)
  \/ \E k \in Sockets : OnConnect(k)
  \/ LoadTodosStart
  \/ GetTodosResolves
  \/ \E r \in Requests, u \in Users, b \in PlainBodies : PostTodo(r, u, b)
  \/ \E r \in Requests : PostTodoCreate(r)
  \/ \E r \in Requests, u \in Users, i \in TodoIds : DeleteTodoFind(r, u, i)
  \/ \E r \in Requests : DeleteTodoDelete(r)

\* What runs without anyone's doing runs to its end: a handler of the server
\* past its await, a list request that was sent, a socket that is connecting.
\* Mounting the dashboard and sending a request are left to the users.
SpecSync ==
  /\ Init
  /\ [][NextSync]_vars
  /\ \A r \in Requests : WF_vars(PostTodoCreate(r))
  /\ \A r \in Requests : WF_vars(DeleteTodoDelete(r))
  /\ WF_vars(GetTodosResolves)
  /\ \A k \in Sockets : WF_vars(OnConnect(k))

\* =================================================================== Claims

\* The room an event is meant for: the per-user room of the todo's owner, who
\* is named by the entity and, for a bare id, is the user of the sender.
EventRoom(b) ==
  IF "userId" \in DOMAIN b.data
    THEN UserRoom(b.data.userId)
    ELSE UserRoom(AuthUser(auth[b.from]))

Relayed == broadcast' # NoBroadcast

\* C1: a todo event broadcast to a room is received by exactly the sessions
\* joined to that room (the originator aside): every member receives it and
\* no session outside the room does.
C1_OnlyRoomMembersReceive ==
  [][Relayed =>
       \A s \in Sessions \ {broadcast'.from} :
         s \in broadcast'.to <=> s \in Members(EventRoom(broadcast'))]_vars

\* A step that answers a successful mutation, the event that announces it and
\* the todo it is about.
Succeeded(r) == req[r].pc # "done" /\ req'[r] = Done /\ response'.status \in {200, 201}
MutationEvent(r) ==
  CASE req[r].pc = "create" -> "todo-created"
    [] req[r].pc = "update" -> "todo-updated"
    [] OTHER -> "todo-deleted"
MutatedId(r) == IF req[r].pc = "create" THEN nextId ELSE req[r].id
MutatedOwner(r) == req[r].user

\* C2: every successful create, update or delete emits exactly one event of
\* the matching kind, about the mutated todo, to the owner's per-user room;
\* any other step of the Mutation API emits none.
C2_EachMutationEmitsOneEvent ==
  [][IF \E r \in Requests : Succeeded(r)
       THEN \E r \in Requests :
              /\ Succeeded(r)
              /\ broadcast' # NoBroadcast
              /\ broadcast'.event = MutationEvent(r)
              /\ broadcast'.data.id = MutatedId(r)
              /\ broadcast'.to = Members(UserRoom(MutatedOwner(r)))
       ELSE broadcast' = NoBroadcast]_vars

\* The state an event describes is in storage: the entity's row exists with
\* the owner the event names; a deleted id was issued and its row is gone.
Committed(b) ==
  IF b.event = "todo-deleted"
    THEN b.data.id < nextId /\ db[b.data.id] = NoTodo
    ELSE db[b.data.id] # NoTodo /\ db[b.data.id].userId = b.data.userId

\* C3: every event delivered to a session describes a state that storage
\* had committed before the event was emitted.
C3_EventsFollowCommit ==
  [][Relayed /\ broadcast'.to # {} => Committed(broadcast')]_vars

\* C7: with A and B joined to the same user room, an event originated by A
\* is delivered to B and is never delivered back to A.
C7_OriginatorExcluded ==
  [][Relayed =>
       LET A == broadcast'.from IN
         /\ A \notin broadcast'.to
         /\ \A B \in Sessions \ {A}, u \in Users :
              A \in Members(UserRoom(u)) /\ B \in Members(UserRoom(u))
                => B \in broadcast'.to]_vars

C7_Witness ==
  /\ broadcast.from # NoSession
  /\ broadcast.from \notin broadcast.to
  /\ \E B \in broadcast.to, u \in Users :
       /\ broadcast.from \in Members(UserRoom(u))
       /\ B \in Members(UserRoom(u))

C9_OnlyAuthenticatedSessions ==
  \A s \in Connected : AuthUser(auth[s]) \in Users

\* C10: a session of user U is never a member of the per-user room of
\* another user V.
C10_OwnUserRoomOnly ==
  \A s \in Sessions, v \in Users :
    AuthUser(auth[s]) \in Users /\ UserRoom(v) \in rooms[s] => v = AuthUser(auth[s])

HasId(list, id) == \E i \in DOMAIN list : list[i].id = id

SameTodoUpdatedTwice ==
  /\ prevEvt.kind = "todo-updated"
  /\ lastEvt.kind = "todo-updated"
  /\ prevEvt.data.id = lastEvt.data.id

C5_CreatedIsIdempotent ==
  [][lastEvt'.kind = "todo-created" =>
       todos' = IF HasId(todos, lastEvt'.data.id)
                  THEN todos
                  ELSE <<lastEvt'.data>> \o todos]_vars

\* The number of entries with the id among the first n of the list.
Hits(list, id, n) == Cardinality({j \in 1..n : list[j].id = id})

\* C6: a `deleted` event for an id that is not cached leaves the list as it
\* is; for a cached id the entries with that id are removed and every other
\* entry is kept, in order.
C6_DeletedRemovesOnlyThatId ==
  [][lastEvt'.kind = "todo-deleted" =>
       LET id == lastEvt'.data.id IN
         IF ~ HasId(todos, id)
           THEN todos' = todos
           ELSE /\ ~ HasId(todos', id)
                /\ Len(todos') = Len(todos) - Hits(todos, id, Len(todos))
                /\ \A i \in DOMAIN todos :
                     todos[i].id # id => todos'[i - Hits(todos, id, i)] = todos[i]]_vars

\* The same id deleted twice in a row: the second event found it absent, and
\* the cache still holds the other todo.
C6_Witness ==
  /\ lastEvt.kind = "todo-deleted"
  /\ prevEvt = lastEvt
  /\ Len(todos) > 0
  /\ ~ HasId(todos, lastEvt.data.id)

\* ------------------------------------------------- Mutation API: C11 .. C16

\* The user owns a todo that exists.
Owns(user, id) == db[id] # NoTodo /\ db[id].userId = user

\* Request r is answered by this step.
Answers(r) == req[r].pc \notin {"idle", "done"} /\ req'[r] = Done

\* C11: a mutation request behaves as if its ownership check, write and
\* answer were one step: the update or delete that commits after a concurrent
\* request gets the outcome its check has at that moment, not-found (404) when
\* the todo is gone and success otherwise.
C11_MutationsSerialize ==
  [][\A r \in Requests :
       /\ Answers(r)
       /\ req[r].pc \in {"update", "delete"}
       /\ req[r].pc = "update" => ~ ForeignKeyFails(req[r].body)
       => response'.status = IF Owns(req[r].user, req[r].id) THEN 200 ELSE 404]_vars

\* C12: a step changes the category associations of a todo only by putting
\* the category list of an update in the place of the old one: they are never
\* removed without their replacement.
C12_CategoryReplacementAtomic ==
  [][\A i \in TodoIds :
       db[i] # NoTodo /\ db'[i] # NoTodo /\ todoCategories'[i] # todoCategories[i] =>
         \E r \in Requests :
           /\ req[r].pc \in {"deleteMany", "update"}
           /\ req'[r] # req[r]
           /\ req[r].id = i
           /\ todoCategories'[i] = req[r].body.categoryIds]_vars

\* A step of a request of the owner of todo i, past its ownership check.
OwnerStep(i) ==
  \E r \in Requests :
    /\ req[r].pc \in {"deleteMany", "update", "delete"}
    /\ req'[r] # req[r]
    /\ req[r].id = i
    /\ req[r].user = db[i].userId

\* C13: an update (that passed validation) or a delete of a todo id that does
\* not exist or is owned by another user is answered 404 at its ownership
\* check and changes nothing in storage; only such a request is answered 404
\* there, and only the requests of the owner get past the check; every step
\* that modifies or deletes a todo or its associations is a step of a request
\* of the todo's owner.
C13_NotOwnedIsNotFound ==
  [][/\ \A r \in Requests :
          req[r] = Idle /\ req'[r] # Idle =>
            /\ req'[r] = Done /\ response'.id # 0 =>
                 /\ response'.status = 404
                 /\ ~ Owns(response'.user, response'.id)
                 /\ <<db, todoCategories, nextId>>' = <<db, todoCategories, nextId>>
            /\ req'[r].pc \in {"deleteMany", "update", "delete"} =>
                 Owns(req'[r].user, req'[r].id)
     /\ \A i \in TodoIds :
          db[i] # NoTodo /\ (db'[i] # db[i] \/ todoCategories'[i] # todoCategories[i])
            => OwnerStep(i)]_vars

\* A user asked for a todo of another user and was answered 404; the todo is
\* still there.
C13_Witness ==
  /\ response.status = 404
  /\ response.id # 0
  /\ db[response.id] # NoTodo
  /\ db[response.id].userId \in Users \ {response.user}

\* C14: no todo is associated with a category of another user (a create that
\* names one fails and creates nothing).
C14_OnlyOwnCategories ==
  \A i \in TodoIds :
    db[i] # NoTodo => \A c \in todoCategories[i] : CategoryOwner(c) = db[i].userId

\* C15: a successful update leaves every field its body does not carry as it
\* was before the update and gives every field it carries the requested value
\* (for the due date, the instant the requested date names).
C15_PartialUpdate ==
  [][\A r \in Requests :
       Answers(r) /\ req[r].pc = "update" /\ response'.status = 200 =>
         LET body == req[r].body
             old == db[req[r].id]
             new == db'[req[r].id]
         IN  /\ new.userId = old.userId
             /\ \A f \in {"title", "priority", "status"} :
                  new[f] = IF body[f] # Undefined THEN body[f] ELSE old[f]
             /\ new.dueDate = IF body.dueDate # Undefined THEN ToDate(body.dueDate)
                                                           ELSE old.dueDate]_vars

\* An update was answered 200 and the todo has the title one update gave it,
\* the status another gave it and the priority it was created with.
C15_Witness ==
  /\ response.status = 200
  /\ db[response.id] # NoTodo
  /\ db[response.id].title = "b"
  /\ db[response.id].status = "COMPLETED"
  /\ db[response.id].priority = "MEDIUM"

\* C16: the todo a successful create returns is new, is owned by the
\* requesting user, has status TODO, and has the priority the request gave,
\* MEDIUM when it gave none.
C16_CreateDefaults ==
  [][\A r \in Requests :
       Answers(r) /\ req[r].pc = "create" /\ response'.status = 201 =>
         LET id == response'.id IN
           /\ db[id] = NoTodo
           /\ db'[id] # NoTodo
           /\ db'[id].userId = req[r].user
           /\ db'[id].status = "TODO"
           /\ db'[id].priority =
                IF req[r].body.priority = Undefined THEN "MEDIUM" ELSE req[r].body.priority]_vars

\* A create that gave no priority was answered with a MEDIUM, TODO todo of
\* its user.
C16_Witness ==
  /\ response.status = 201
  /\ db[response.id] # NoTodo
  /\ db[response.id].priority = "MEDIUM"
  /\ db[response.id].status = "TODO"
  /\ db[response.id].userId = response.user

\* ---------------------------------------------------- Event channel: C17

Schedules == timers' > timers

\* Socket k connects in this step.
Connects(k) == sock[k] = "connecting" /\ IsConnected(sock'[k])

\* C18: the delay before the n-th consecutive reconnection attempt is
\* min(1000 * 2^(n-1), 30000) ms: 1 s, 2 s, 4 s, ... up to the ceiling.
C18_BackoffFromOneSecond ==
  [][Schedules =>
       delay' = Min(1000 * 2 ^ (reconnectAttempts' - 1), 30000)]_vars

\* C19: the attempt counter stays within 0..maxReconnectAttempts; it goes
\* back to 0 only in a step in which a socket connects; every attempt that is
\* scheduled takes one unit of the budget, and none is scheduled once the
\* counter has reached the maximum.
C19_BoundedReconnection ==
  [][/\ reconnectAttempts' \in 0..maxReconnectAttempts
     /\ reconnectAttempts' < reconnectAttempts =>
          reconnectAttempts' = 0 /\ \E k \in Sockets : Connects(k)
     /\ Schedules =>
          reconnectAttempts < maxReconnectAttempts
            /\ reconnectAttempts' = reconnectAttempts + 1
     /\ reconnectAttempts' > reconnectAttempts => Schedules]_vars

\* The budget is spent: the fifth attempt has been scheduled.
C19_Witness ==
  /\ reconnectAttempts = maxReconnectAttempts
  /\ \E k \in Sockets : sock[k] = "connecting"

\* C20: when a socket connects after a transport loss, the client has sent
\* join-user-room on it and has a refresh of its todo list under way.
C20_RejoinAndRefresh ==
  [][\A k \in Sockets :
       Connects(k) /\ lost /\ login # NoUser =>
         sock'[k] = "joined" /\ isLoading']_vars

\* --------------------------------------------------------- C25 .. C27, C30

\* Session s sent leave-team-room(t) in this step.
Leaves(s, t) ==
  /\ received' # received
  /\ received' = [event |-> "leave-team-room", from |-> s, arg |-> t]

\* C25: once the server has received leave-team-room(teamId) from a session,
\* the session is not a member of room team-<teamId>.
C25_LeaveTeamRoomLeaves ==
  [][\A s \in Sessions, t \in Teams :
       Leaves(s, t) => TeamRoom(t) \notin rooms'[s]]_vars

\* C26: no two entries of the cached todo list have the same id.
C26_CacheIdsUnique ==
  \A i, j \in DOMAIN todos : todos[i].id = todos[j].id => i = j

\* The sockets of the service that are open or trying to connect.
Live == {k \in Sockets : sock[k] \in {"connecting", "connected", "joined"}}

\* C27: at most one socket of the service is open or trying to connect.
C27_AtMostOneLiveSocket == Cardinality(Live) <= 1

\* C30: an `updated` event whose id is not in the cache leaves the cached
\* list as it is.
C30_UpdateOfAbsentIdIsNoOp ==
  [][lastEvt'.kind = "todo-updated" /\ ~ HasId(todos, lastEvt'.data.id) =>
       todos' = todos]_vars

\* The event applied last was an update of a todo that is not cached, and
\* the cache holds another todo.
C30_Witness ==
  /\ lastEvt.kind = "todo-updated"
  /\ ~ HasId(todos, lastEvt.data.id)
  /\ Len(todos) > 0

\* ------------------------------------------------- Client requests: C22, C23

\* The answer to the createTodo request reaches onSubmit in this step.
Settles(status) == submit = [state |-> "answered", status |-> status] /\ submit' = NoSubmit

\* C22: when the createTodo request fails, the step that handles the failure
\* leaves the cached todo list as it was, with no trace of the mutation that
\* was asked for, starts no refresh, and reports the error to the user.
C22_FailureLeavesCacheAndReports ==
  [][\A status \in CreateStatuses \ {201} :
       Settles(status) =>
         /\ todos' = todos
         /\ isLoading' = isLoading
         /\ toast' = "create failed"]_vars

\* A failed createTodo was reported while the cache held todos.
C22_Witness ==
  /\ toast = "create failed"
  /\ submit = NoSubmit
  /\ ~ isLoading
  /\ Len(todos) > 0

\* C23: when the answer to an API request is a 401, the step that handles it
\* leaves the auth store logged out (no user, no token), this.socket closed
\* and null, and the request failed for its caller.
C23_UnauthorizedForcesLogout ==
  [][Settles(401) =>
       /\ login' = NoUser
       /\ current' = NoSocket
       /\ current # NoSocket => sock'[current] = "closed"
       /\ toast' = "create failed"]_vars

\* A 401 is on its way to a client that is logged in and whose socket is in
\* the user room.
C23_Witness ==
  /\ submit = [state |-> "answered", status |-> 401]
  /\ login # NoUser
  /\ current # NoSocket
  /\ sock[current] = "joined"

\* A socket is made in this step.
Makes(k) == sock[k] = "none" /\ sock'[k] # "none"

\* C28: after disconnect(), and until the application (the App effect, on
\* login) calls connect() again, the service is disconnected: this.socket
\* stays null, no socket is made, and no socket of the service is connected.
C28_StaysDisconnected ==
  [][current = NoSocket /\ login' = login =>
       /\ current' = NoSocket
       /\ \A k \in Sockets : ~ Makes(k)
       /\ \A k \in Sockets : ~ IsConnected(sock'[k])]_vars

\* -------------------------------------------------------- Categories: C29

NoDuplicateNames(table) ==
  \A c, d \in CategoryNumbers :
    /\ table[c] # NoCategory
    /\ table[c].userId = table[d].userId
    /\ table[c].name = table[d].name
    => c = d

\* C29: no two categories of a user have the same name, and a create or
\* update whose write would give the user a second category of a name is
\* answered 400 and changes nothing.
C29_CategoryNamesUnique ==
  [][/\ NoDuplicateNames(categories')
     /\ \A r \in Requests :
          /\ Answers(r)
          /\ req[r].pc \in {"createCategory", "updateCategory"}
          /\ req[r].body.name # Undefined
          /\ Named(req[r].user, req[r].body.name, req[r].id) # {}
          => response'.status = 400 /\ categories' = categories]_vars


\* ------------------------------------------- Subtask and comment routes: C24

\* The user owns the todo of a subtask that exists.
OwnsSubtask(user, j) == subtasks[j] # NoSubtask /\ Owns(user, subtasks[j].todoId)

\* The todo that the subtask or comment request r is about.
ParentOf(r) ==
  IF req[r].pc \in {"updateSubtask", "deleteSubtask"}
    THEN subtasks[req[r].id].todoId ELSE req[r].id

\* A step of a request of the owner of todo i on that todo, its subtasks or
\* its comments, past its ownership check.
ParentOwnerStep(i) ==
  \E r \in Requests :
    /\ req'[r] # req[r]
    /\ req[r].pc \in {"createSubtask", "updateSubtask", "deleteSubtask", "createComment",
                      "delete"}
    /\ ParentOf(r) = i
    /\ Owns(req[r].user, i)

\* C24: a subtask or comment request (that passed validation) whose parent
\* todo does not exist or is owned by another user is answered 404 at its
\* ownership check and changes nothing in storage; only the requests of the
\* parent's owner get past the check, only they succeed, and every step that
\* creates, modifies or deletes a subtask or a comment is a step of a request
\* of the owner of its parent todo.
C24_ChildrenScopedByParentOwner ==
  [][/\ \A r \in Requests :
          req[r] = Idle /\ req'[r] # Idle =>
            /\ req'[r] = Done /\ response'.id \in TodoIds =>
                 /\ response'.status = 404
                 /\ ~ Owns(response'.user, response'.id)
                 /\ <<db, todoCategories, nextId, children>>'
                      = <<db, todoCategories, nextId, children>>
            /\ req'[r] = Done /\ response'.id \in SubtaskIds =>
                 /\ response'.status = 404
                 /\ ~ OwnsSubtask(response'.user, response'.id)
                 /\ <<db, todoCategories, nextId, children>>'
                      = <<db, todoCategories, nextId, children>>
            /\ req'[r].pc \in {"createSubtask", "createComment"} =>
                 Owns(req'[r].user, req'[r].id)
            /\ req'[r].pc \in {"updateSubtask", "deleteSubtask"} =>
                 OwnsSubtask(req'[r].user, req'[r].id)
     /\ \A r \in Requests :
          /\ Answers(r)
          /\ req[r].pc \in {"createSubtask", "updateSubtask", "deleteSubtask", "createComment"}
          /\ response'.status \in {200, 201}
          => Owns(req[r].user, ParentOf(r))
     /\ \A j \in SubtaskIds :
          subtasks'[j] # subtasks[j] =>
            ParentOwnerStep(IF subtasks[j] # NoSubtask THEN subtasks[j].todoId
                                                       ELSE subtasks'[j].todoId)
     /\ \A j \in CommentIds :
          comments'[j] # comments[j] =>
            ParentOwnerStep(IF comments[j] # NoComment THEN comments[j].todoId
                                                       ELSE comments'[j].todoId)]_vars

\* A user asked to update or delete a subtask of a todo of another user and
\* was answered 404; the subtask is still there.
C24_Witness ==
  /\ response.status = 404
  /\ response.id \in SubtaskIds
  /\ subtasks[response.id] # NoSubtask
  /\ db[subtasks[response.id].todoId].userId \in Users \ {response.user}


\* ----------------------------------------------- Cache against storage: C21

\* No request is being served and no list request is on its way.
Quiet == (\A r \in Requests : req[r].pc \in {"idle", "done"}) /\ ~ isLoading

\* The client is logged in and its socket has joined its room.
StaysConnected == login # NoUser /\ current # NoSocket /\ sock[current] = "joined"

\* The cache holds the todos storage holds for the user of the client.
Mirrors ==
  {[id |-> todos[i].id, title |-> todos[i].title] : i \in DOMAIN todos}
    = {[id |-> i, title |-> db[i].title] : i \in {j \in TodoIds : Owns(login, j)}}

\* C21: when from some moment on no request is served, the client stays
\* connected and the cache was last filled by a load of the list, then from
\* some moment on the cache holds the todos storage holds for the user.
C21_CacheConverges ==
  <>[](Quiet /\ StaysConnected /\ lastEvt.kind = "loaded") => <>[]Mirrors

====
